---- MODULE Spec2Model ----
(***************************************************************************)
(* Model of src/main.rs: an actix-web service with five handlers over one  *)
(* PostgreSQL table `items (id, name, description)`, one SQL statement per  *)
(* handler, and a `main` that reads DATABASE_URL, builds the pool and       *)
(* starts the HTTP server.                                                  *)
(*                                                                          *)
(* Every handler is an async task.  A task is started by the router (the   *)
(* route_* actions: the handler runs up to its first .await) and finished  *)
(* by the handler action of the same name as in the source (the statement  *)
(* executes atomically in the database, the `match result` builds the      *)
(* response).  Tasks in flight interleave freely.  The response of a task   *)
(* that finished is written out (respond) before the next step is taken:   *)
(* writing a response touches neither the table nor the other tasks.       *)
(*                                                                          *)
(* `last` is a history variable: what the service has acknowledged for     *)
(* each identifier.  The properties compare later answers against it.      *)
(*                                                                          *)
(* Operators whose name extends a statement's or a guard's (InsertSwapped,  *)
(* UpdateUpsert, ServingAlways, ...) are faulty variants of it; the         *)
(* properties are also run against them to show what each one depends on.  *)
(***************************************************************************)
EXTENDS Integers, FiniteSets, Bags, TLC

(* ------------------------------ bounds -------------------------------- *)
\* Uuid values are modelled as the integers 1..NumIds.
NumIds == 2
\* Number of handler tasks that may be in flight at once.
MaxInFlight == 2

Ids == 1..NumIds
NoId == 0
Texts == {"a", "b"}
\* JSON bodies a client sends: the two fields differ, so that a handler that
\* swaps or drops a field is visible.
Bodies == {b \in [name : Texts, description : Texts] : b.name # b.description}

(* --------------------------- program constants ------------------------- *)
MaxConnections == 5
StatusOk == 200
StatusCreated == 201
StatusNotFound == 404
StatusInternalServerError == 500

DatabaseUrls == {"", "postgres://db"}   \* "" : DATABASE_URL is not set

VARIABLES
    phase,         \* position of main: "env", "connect", "bind", "serving", "aborted", "exited"
    database_url,  \* the environment variable DATABASE_URL ("" when unset)
    pool,          \* the PgPool built by main
    items,         \* the table `items`: a set of rows
    pending,       \* bag of handler tasks suspended on their SQL statement
    result,        \* the sqlx result of the statement whose response is being written
    response,      \* the HttpResponse being written to the client, with its request
    last           \* per identifier: the last create, delete or update of a stored
                   \* row that was acknowledged with a 2xx

vars == <<phase, database_url, pool, items, pending, result, response, last>>

(* ------------------------------- data --------------------------------- *)
Item(id, name, description) == [id |-> id, name |-> name, description |-> description]

NoPool == [url |-> "", max_connections |-> 0]

Request(handler, id, name, description) ==
    [handler |-> handler, pool |-> pool, id |-> id, name |-> name, description |-> description]

NoRequest == [handler |-> "", pool |-> NoPool, id |-> NoId, name |-> "", description |-> ""]

Ok(rows_affected) == [tag |-> "Ok", kind |-> "", rows_affected |-> rows_affected]
Err(kind) == [tag |-> "Err", kind |-> kind, rows_affected |-> 0]
NoResult == [tag |-> "", kind |-> "", rows_affected |-> 0]

\* A response body: nothing, plain text, one JSON item, or a JSON array of
\* items.  The array is kept up to order as a bag of items.
EmptyBody == [kind |-> "empty", text |-> "", json |-> EmptyBag]
TextBody(text) == [kind |-> "text", text |-> text, json |-> EmptyBag]
JsonItem(item) == [kind |-> "item", text |-> "", json |-> SetToBag({item})]
JsonArray(bag) == [kind |-> "array", text |-> "", json |-> bag]

HttpResponse(status, body) == [status |-> status, body |-> body]
NoResponse == [req |-> NoRequest, status |-> 0, body |-> EmptyBody]

\* An acknowledged write: the handler and the item it wrote (blank for a
\* delete).  An update that met no row wrote nothing and is not recorded.
NoWrite == [op |-> "none", name |-> "", description |-> ""]
Write(op, name, description) ==
    IF op = "delete"
    THEN [op |-> op, name |-> "", description |-> ""]
    ELSE [op |-> op, name |-> name, description |-> description]

(* ----------------------------- the table ------------------------------ *)
Keys(tbl) == {row.id : row \in tbl}

\* The table's primary key on id: an INSERT of a key already present fails.
UniqueViolation(tbl, id) == id \in Keys(tbl)

\* Each statement yields the sqlx result and the table afterwards.  `up` is
\* FALSE when the round trip to the database fails.
Failed(tbl) == [result |-> Err("Io"), table |-> tbl, rows |-> EmptyBag]

\* INSERT INTO items (id, name, description) VALUES ($1, $2, $3)
InsertUnchecked(tbl, id, name, description, up) ==
    IF ~up THEN Failed(tbl)
    ELSE [result |-> Ok(1), table |-> tbl \cup {Item(id, name, description)}, rows |-> EmptyBag]
InsertSwapped(tbl, id, name, description, up) ==
    IF ~up THEN Failed(tbl)
    ELSE IF UniqueViolation(tbl, id)
         THEN [result |-> Err("Database"), table |-> tbl, rows |-> EmptyBag]
         ELSE [result |-> Ok(1), table |-> tbl \cup {Item(id, description, name)},
               rows |-> EmptyBag]
Insert(tbl, id, name, description, up) ==
    IF ~up THEN Failed(tbl)
    ELSE IF UniqueViolation(tbl, id)
         THEN [result |-> Err("Database"), table |-> tbl, rows |-> EmptyBag]
         ELSE [result |-> Ok(1), table |-> tbl \cup {Item(id, name, description)},
               rows |-> EmptyBag]

\* SELECT id, name, description FROM items   (fetch_all)
SelectAllTwice(tbl, up) ==
    IF ~up THEN Failed(tbl)
    ELSE [result |-> Ok(0), table |-> tbl, rows |-> SetToBag(tbl) (+) SetToBag(tbl)]
SelectAll(tbl, up) ==
    IF ~up THEN Failed(tbl)
    ELSE [result |-> Ok(0), table |-> tbl, rows |-> SetToBag(tbl)]

\* SELECT id, name, description FROM items WHERE id = $1   (fetch_one)
SelectAny(tbl, id, up) ==
    IF ~up THEN Failed(tbl)
    ELSE IF tbl = {}
         THEN [result |-> Err("RowNotFound"), table |-> tbl, rows |-> EmptyBag]
         ELSE [result |-> Ok(0), table |-> tbl,
               rows |-> SetToBag({CHOOSE row \in tbl : \A other \in tbl : row.id <= other.id})]
SelectOne(tbl, id, up) ==
    IF ~up THEN Failed(tbl)
    ELSE IF {row \in tbl : row.id = id} = {}
         THEN [result |-> Err("RowNotFound"), table |-> tbl, rows |-> EmptyBag]
         ELSE [result |-> Ok(0), table |-> tbl,
               rows |-> SetToBag({CHOOSE row \in tbl : row.id = id})]

\* UPDATE items SET name = $1, description = $2 WHERE id = $3
UpdateUpsert(tbl, name, description, id, up) ==
    IF ~up THEN Failed(tbl)
    ELSE [result |-> Ok(1),
          table |-> {row \in tbl : row.id # id} \cup {Item(id, name, description)},
          rows |-> EmptyBag]
UpdateNameOnly(tbl, name, description, id, up) ==
    IF ~up THEN Failed(tbl)
    ELSE [result |-> Ok(Cardinality({row \in tbl : row.id = id})),
          table |-> {IF row.id = id THEN Item(row.id, name, row.description) ELSE row
                     : row \in tbl},
          rows |-> EmptyBag]
Update(tbl, name, description, id, up) ==
    IF ~up THEN Failed(tbl)
    ELSE [result |-> Ok(Cardinality({row \in tbl : row.id = id})),
          table |-> {IF row.id = id THEN Item(row.id, name, description) ELSE row
                     : row \in tbl},
          rows |-> EmptyBag]

\* DELETE FROM items WHERE id = $1
DeleteAll(tbl, id, up) ==
    IF ~up THEN Failed(tbl)
    ELSE [result |-> Ok(Cardinality(tbl)), table |-> {}, rows |-> EmptyBag]
Delete(tbl, id, up) ==
    IF ~up THEN Failed(tbl)
    ELSE [result |-> Ok(Cardinality({row \in tbl : row.id = id})),
          table |-> {row \in tbl : row.id # id},
          rows |-> EmptyBag]

(* --------------------- the handlers' `match result` -------------------- *)
create_item_response(res, req) ==
    IF res.tag = "Ok"
    THEN HttpResponse(StatusCreated, JsonItem(Item(req.id, req.name, req.description)))
    ELSE HttpResponse(StatusInternalServerError, EmptyBody)

get_items_response(res, rows) ==
    IF res.tag = "Ok"
    THEN HttpResponse(StatusOk, JsonArray(rows))
    ELSE HttpResponse(StatusInternalServerError, EmptyBody)

get_item_response(res, rows) ==
    IF res.tag = "Ok"
    THEN HttpResponse(StatusOk, [kind |-> "item", text |-> "", json |-> rows])
    ELSE HttpResponse(StatusNotFound, TextBody("Item not found"))

update_item_checks_rows(res, req) ==
    IF res.tag = "Ok" /\ res.rows_affected > 0
    THEN HttpResponse(StatusOk, JsonItem(Item(req.id, req.name, req.description)))
    ELSE IF res.tag = "Ok"
         THEN HttpResponse(StatusNotFound, TextBody("Item not found"))
         ELSE HttpResponse(StatusInternalServerError, EmptyBody)
update_item_response(res, req) ==
    IF res.tag = "Ok"
    THEN HttpResponse(StatusOk, JsonItem(Item(req.id, req.name, req.description)))
    ELSE HttpResponse(StatusInternalServerError, EmptyBody)

delete_item_response(res) ==
    IF res.tag = "Ok"
    THEN HttpResponse(StatusOk, TextBody("Item deleted"))
    ELSE HttpResponse(StatusInternalServerError, EmptyBody)

(* ------------------------------- main ---------------------------------- *)
Init ==
    /\ phase = "env"
    /\ database_url \in DatabaseUrls
    /\ pool = NoPool
    /\ items = {}
    /\ pending = EmptyBag
    /\ result = NoResult
    /\ response = NoResponse
    /\ last = [id \in Ids |-> NoWrite]

\* env::var("DATABASE_URL").expect(..): panics when the variable is unset.
main_env ==
    /\ phase = "env"
    /\ phase' = IF database_url = "" THEN "aborted" ELSE "connect"
    /\ UNCHANGED <<database_url, pool, items, pending, result, response, last>>

\* PgPoolOptions::new().max_connections(5).connect(..).await.expect(..)
main_connect ==
    /\ phase = "connect"
    /\ \E connected \in BOOLEAN :
         IF connected
         THEN /\ pool' = [url |-> database_url, max_connections |-> MaxConnections]
              /\ phase' = "bind"
         ELSE /\ pool' = pool
              /\ phase' = "aborted"
    /\ UNCHANGED <<database_url, items, pending, result, response, last>>

\* HttpServer::new(..).bind("127.0.0.1:8080")?.run()
main_bind ==
    /\ phase = "bind"
    /\ \E bound \in BOOLEAN : phase' = IF bound THEN "serving" ELSE "exited"
    /\ UNCHANGED <<database_url, pool, items, pending, result, response, last>>

\* The server dispatches requests only while it runs.
ServingAlways == TRUE
Serving == phase = "serving"

(* ------------------------------ routing -------------------------------- *)
\* Uuid::new_v4(): a random 128-bit identifier.  With fresh = FALSE it may be
\* any identifier.  With fresh = TRUE it is fresh: one that no acknowledged
\* write and no request in flight has named, and that no client names before
\* the create that drew it has answered.
Named == {id \in Ids : last[id].op # "none"} \cup {req.id : req \in BagToSet(pending)}
Undisclosed == {req.id : req \in {r \in BagToSet(pending) : r.handler = "create_item"}}
new_v4(fresh) == IF fresh THEN Ids \ Named ELSE Ids
\* The identifiers a client may put in a path.
PathIds(fresh) == IF fresh THEN Ids \ Undisclosed ELSE Ids

Spawn(req) ==
    /\ Serving
    /\ BagCardinality(pending) < MaxInFlight
    /\ pending' = pending (+) SetToBag({req})
    /\ response = NoResponse
    /\ UNCHANGED <<phase, database_url, pool, items, result, response, last>>

\* POST /items: the handler draws the identifier, then awaits the INSERT.
route_create_item(fresh) ==
    \E id \in new_v4(fresh), b \in Bodies :
        Spawn(Request("create_item", id, b.name, b.description))

\* GET /items
route_get_items == Spawn(Request("get_items", NoId, "", ""))

\* GET /items/{id}
route_get_item(fresh) == \E id \in PathIds(fresh) : Spawn(Request("get_item", id, "", ""))

\* PUT /items/{id}
route_update_item(fresh) ==
    \E id \in PathIds(fresh), b \in Bodies :
        Spawn(Request("update_item", id, b.name, b.description))

\* DELETE /items/{id}
route_delete_item(fresh) == \E id \in PathIds(fresh) : Spawn(Request("delete_item", id, "", ""))

(* ------------------------------ handlers ------------------------------- *)
\* The task `req` resumes with the statement's outcome `out` and answers `resp`.
Finish(req, out, resp, write) ==
    /\ response = NoResponse
    /\ pending' = pending (-) SetToBag({req})
    /\ items' = out.table
    /\ result' = out.result
    /\ response' = [req |-> req, status |-> resp.status, body |-> resp.body]
    /\ last' = IF /\ out.result.tag = "Ok"
                  /\ write # "none"
                  /\ (write = "update" => out.result.rows_affected > 0)
               THEN [last EXCEPT ![req.id] = Write(write, req.name, req.description)]
               ELSE last
    /\ UNCHANGED <<phase, database_url, pool>>

Task(handler) == {req \in BagToSet(pending) : req.handler = handler}

create_item ==
    \E req \in Task("create_item"), up \in BOOLEAN :
        LET out == Insert(items, req.id, req.name, req.description, up)
        IN Finish(req, out, create_item_response(out.result, req), "create")

get_items ==
    \E req \in Task("get_items"), up \in BOOLEAN :
        LET out == SelectAll(items, up)
        IN Finish(req, out, get_items_response(out.result, out.rows), "none")

get_item ==
    \E req \in Task("get_item"), up \in BOOLEAN :
        LET out == SelectOne(items, req.id, up)
        IN Finish(req, out, get_item_response(out.result, out.rows), "none")

update_item ==
    \E req \in Task("update_item"), up \in BOOLEAN :
        LET out == Update(items, req.name, req.description, req.id, up)
        IN Finish(req, out, update_item_response(out.result, req), "update")

delete_item ==
    \E req \in Task("delete_item"), up \in BOOLEAN :
        LET out == Delete(items, req.id, up)
        IN Finish(req, out, delete_item_response(out.result), "delete")

\* The server writes the handler's response to the client's connection.
respond ==
    /\ response # NoResponse
    /\ response' = NoResponse
    /\ result' = NoResult
    /\ UNCHANGED <<phase, database_url, pool, items, pending, last>>

Next ==
    \/ main_env
    \/ main_connect
    \/ main_bind
    \/ route_create_item(FALSE)
    \/ route_get_items
    \/ route_get_item(FALSE)
    \/ route_update_item(FALSE)
    \/ route_delete_item(FALSE)
    \/ create_item
    \/ get_items
    \/ get_item
    \/ update_item
    \/ delete_item
    \/ respond

Spec == Init /\ [][Next]_vars

\* The same program when every generated identifier is fresh.
NextFresh ==
    \/ main_env
    \/ main_connect
    \/ main_bind
    \/ route_create_item(TRUE)
    \/ route_get_items
    \/ route_get_item(TRUE)
    \/ route_update_item(TRUE)
    \/ route_delete_item(TRUE)
    \/ create_item
    \/ get_items
    \/ get_item
    \/ update_item
    \/ delete_item
    \/ respond

SpecFresh == Init /\ [][NextFresh]_vars

(* ------------------------- reading a behaviour ------------------------- *)
\* The step finishes the task `req` of handler `handler`.
Finishes(handler, req) ==
    /\ req.handler = handler
    /\ BagIn(req, pending)
    /\ pending' = pending (-) SetToBag({req})
    /\ response'.req = req

\* The statement of the finishing task failed in the database or on the way.
StoreFailure == result'.tag = "Err" /\ result'.kind \in {"Io", "Database"}

Answer(status, body) == response'.status = status /\ response'.body = body

RowsOf(tbl, id) == {row \in tbl : row.id = id}

(* -------------------------------- C1 ----------------------------------- *)
\* C1: a create whose INSERT succeeds answers 201 with an identifier no
\* stored item had, plus the supplied name and description, and stores that
\* row; a get of an identifier whose last acknowledged write is that create,
\* with no store failure, answers 200 with the same id, name and description.
C1_CreateThenGet ==
    [][\A req \in BagToSet(pending) :
        /\ (Finishes("create_item", req) /\ result'.tag = "Ok") =>
              /\ Answer(StatusCreated, JsonItem(Item(req.id, req.name, req.description)))
              /\ req.id \notin Keys(items)
              /\ req.id \in Keys(items')
        /\ (Finishes("get_item", req) /\ last[req.id].op = "create" /\ ~StoreFailure) =>
              Answer(StatusOk,
                     JsonItem(Item(req.id, last[req.id].name, last[req.id].description)))
      ]_vars

C1_Witness ==
    /\ response.req.handler = "get_item"
    /\ response.status = StatusOk
    /\ last[response.req.id].op = "create"

(* -------------------------------- C2 ----------------------------------- *)
\* C2: an update of a stored identifier whose UPDATE succeeds answers 200
\* with the path identifier and the new values and leaves the set of stored
\* identifiers as it was; a get of an identifier whose last acknowledged
\* write is that update, with no store failure, answers 200 with the new
\* name and description under the same id.
C2_UpdateThenGet ==
    [][\A req \in BagToSet(pending) :
        /\ (Finishes("update_item", req) /\ req.id \in Keys(items) /\ result'.tag = "Ok") =>
              /\ Answer(StatusOk, JsonItem(Item(req.id, req.name, req.description)))
              /\ Keys(items') = Keys(items)
        /\ (Finishes("get_item", req) /\ last[req.id].op = "update" /\ ~StoreFailure) =>
              Answer(StatusOk,
                     JsonItem(Item(req.id, last[req.id].name, last[req.id].description)))
      ]_vars

C2_Witness ==
    /\ response.req.handler = "get_item"
    /\ response.status = StatusOk
    /\ last[response.req.id].op = "update"

(* -------------------------------- C3 ----------------------------------- *)
\* C3: a delete of a stored identifier whose DELETE succeeds answers 200
\* "Item deleted" and removes exactly the row of that identifier; a get of
\* an identifier whose last acknowledged write is a delete answers 404.
C3_DeleteThenGet ==
    [][\A req \in BagToSet(pending) :
        /\ (Finishes("delete_item", req) /\ req.id \in Keys(items) /\ result'.tag = "Ok") =>
              /\ Answer(StatusOk, TextBody("Item deleted"))
              /\ items' = items \ RowsOf(items, req.id)
              /\ RowsOf(items, req.id) # {}
        /\ (Finishes("get_item", req) /\ last[req.id].op = "delete") =>
              response'.status = StatusNotFound
      ]_vars

C3_Witness ==
    /\ response.req.handler = "get_item"
    /\ response.status = StatusNotFound
    /\ last[response.req.id].op = "delete"
    /\ items # {}

(* -------------------------------- C4 ----------------------------------- *)
\* C4: a list whose SELECT succeeds answers 200 with an array that holds,
\* exactly once each, the item of every identifier whose last acknowledged
\* write is a create or an update (with the name and
\* description that write acknowledged), holds nothing that is not in the
\* store, and leaves the store unchanged.
C4_ListHoldsAll ==
    [][\A req \in BagToSet(pending) :
        (Finishes("get_items", req) /\ result'.tag = "Ok") =>
            LET array == response'.body.json IN
            /\ response'.status = StatusOk
            /\ response'.body.kind = "array"
            /\ \A id \in Ids :
                 last[id].op \in {"create", "update"} =>
                    /\ CopiesIn(Item(id, last[id].name, last[id].description), array) = 1
                    /\ \A item \in BagToSet(array) :
                         item.id = id => item = Item(id, last[id].name, last[id].description)
            /\ \A item \in BagToSet(array) : item \in items /\ CopiesIn(item, array) = 1
            /\ items' = items
      ]_vars

C4_Witness ==
    /\ response.req.handler = "get_items"
    /\ response.status = StatusOk
    /\ BagCardinality(response.body.json) = NumIds
    /\ \E id \in Ids : last[id].op = "update"
    /\ \E id \in Ids : last[id].op = "create"

(* -------------------------------- C5 ----------------------------------- *)
\* C5: a get of an identifier that is not in the store answers 404 "Item
\* not found" and leaves the store unchanged.
C5_GetAbsent ==
    [][\A req \in BagToSet(pending) :
        (Finishes("get_item", req) /\ req.id \notin Keys(items)) =>
            /\ Answer(StatusNotFound, TextBody("Item not found"))
            /\ items' = items
      ]_vars

C5_Witness ==
    /\ response.req.handler = "get_item"
    /\ response.status = StatusNotFound
    /\ result.kind = "RowNotFound"
    /\ items # {}

(* -------------------------------- C6 ----------------------------------- *)
\* C6: an update or a delete of an identifier absent from the store, whose
\* statement executes without error, answers 200 (the update echoes the path
\* id and the supplied fields, the delete says "Item deleted") and leaves the
\* store unchanged, so that the identifier is still absent afterwards, when a
\* get of it answers 404.
C6_AbsentWriteIsNoOp ==
    [][\A req \in BagToSet(pending) :
        /\ (Finishes("update_item", req) /\ req.id \notin Keys(items) /\ result'.tag = "Ok") =>
              /\ Answer(StatusOk, JsonItem(Item(req.id, req.name, req.description)))
              /\ items' = items
              /\ req.id \notin Keys(items')
        /\ (Finishes("delete_item", req) /\ req.id \notin Keys(items) /\ result'.tag = "Ok") =>
              /\ Answer(StatusOk, TextBody("Item deleted"))
              /\ items' = items
        /\ (Finishes("get_item", req) /\ req.id \notin Keys(items)) =>
              response'.status = StatusNotFound
      ]_vars

\* An update of an absent identifier has just been answered 200 while other
\* rows are stored.
C6_Witness ==
    /\ response.req.handler = "update_item"
    /\ response.status = StatusOk
    /\ result.rows_affected = 0
    /\ response.req.id \notin Keys(items)
    /\ items # {}

(* -------------------------------- C7 ----------------------------------- *)
\* C7: in each of the five handlers a database operation failure
\* (connectivity, constraint violation, driver error) is answered with 500,
\* and the failed request leaves the store unchanged.
C7_FailureIs500 ==
    [][\A req \in BagToSet(pending) :
        (pending' = pending (-) SetToBag({req}) /\ response'.req = req /\ StoreFailure) =>
            /\ response'.status = StatusInternalServerError
            /\ items' = items
      ]_vars

(* -------------------------------- C8 ----------------------------------- *)
\* C8: no two stored items ever share an id; an update keeps the set of
\* stored ids and every row of another id as they are; a create whose
\* generated id is already stored answers 500 and leaves the store unchanged.
UniqueIds == \A r1 \in items, r2 \in items : r1.id = r2.id => r1 = r2

C8_IdsUniqueAndFixed ==
    /\ []UniqueIds
    /\ [][\A req \in BagToSet(pending) :
            /\ Finishes("update_item", req) =>
                  /\ Keys(items') = Keys(items)
                  /\ items' \ RowsOf(items', req.id) = items \ RowsOf(items, req.id)
            /\ (Finishes("create_item", req) /\ req.id \in Keys(items)) =>
                  /\ response'.status = StatusInternalServerError
                  /\ items' = items
         ]_vars

C8_Witness ==
    /\ response.req.handler = "create_item"
    /\ response.status = StatusInternalServerError
    /\ result.kind = "Database"
    /\ response.req.id \in Keys(items)
    /\ \E id \in Ids : last[id].op = "update"

(* -------------------------------- C9 ----------------------------------- *)
\* C9: a task is in flight or a response is being written only when main
\* has reached the running server with DATABASE_URL present and the pool
\* built from it; every task holds that one pool; after an abort nothing is
\* ever served.
C9_NoRequestBeforeStartup ==
    /\ (BagCardinality(pending) > 0 \/ response # NoResponse) =>
          /\ phase = "serving"
          /\ database_url # ""
          /\ pool # NoPool
    /\ \A req \in BagToSet(pending) : req.pool = pool
    /\ response # NoResponse => response.req.pool = pool
    /\ pool # NoPool => pool.url = database_url /\ database_url # ""
    /\ phase \in {"bind", "serving"} => pool # NoPool
    /\ phase \in {"env", "connect", "aborted"} => pool = NoPool /\ items = {}

C9_Witness ==
    /\ phase = "serving"
    /\ response.status = StatusCreated
    /\ BagCardinality(pending) > 0

(* -------------------------------- C10 ---------------------------------- *)
\* C10: when generated identifiers are fresh (SpecFresh), once a delete of x has been
\* answered 200, x is absent from the store in every later state; an update
\* or a delete without store failure answers 200, the delete leaves its
\* identifier absent and the update never adds an identifier to the store.
DeleteSucceeded(x) ==
    /\ response.req.handler = "delete_item"
    /\ response.req.id = x
    /\ response.status = StatusOk

C10_DeletedStaysDeleted ==
    /\ \A x \in Ids : [](DeleteSucceeded(x) => [](x \notin Keys(items)))
    /\ [][\A req \in BagToSet(pending) :
            /\ (Finishes("update_item", req) /\ ~StoreFailure) =>
                  /\ response'.status = StatusOk
                  /\ Keys(items') = Keys(items)
            /\ (Finishes("delete_item", req) /\ ~StoreFailure) =>
                  /\ response'.status = StatusOk
                  /\ req.id \notin Keys(items')
         ]_vars

\* A delete of a stored identifier has just won the race against an update
\* of the same identifier that is still in flight.
C10_Witness ==
    /\ response.req.handler = "delete_item"
    /\ response.status = StatusOk
    /\ result.rows_affected = 1
    /\ \E req \in BagToSet(pending) :
         req.handler = "update_item" /\ req.id = response.req.id

====
